---- MODULE Spec2Model ----
(***************************************************************************)
(* A model of the bitstream decoding engine of iab_gpp:                     *)
(*   - Base64SliceReader (core/base64.rs): streaming base64url decoder,     *)
(*   - Base64BitReader   (core/base64.rs): bit-level reader on top of it,   *)
(*   - the TCF-CA-v1 and TCF-EU-v2 core segment decoders (sections/*.rs).   *)
(* Bytes are modelled as integers 0..255, strings as sequences of bytes.    *)
(***************************************************************************)
EXTENDS Integers, Sequences, FiniteSets, TLC

VARIABLES
    input,      \* the borrowed input slice (Base64SliceReader.input)
    r,          \* the Base64BitReader: [reader |-> Base64SliceReader, value, bits]
    out,        \* bytes handed out so far by Base64SliceReader::read calls
    last,       \* outcome of the last reader operation
    kind,       \* which section decoder runs: "TcfCaV1", "TcfEuV2" or "none"
    pc,         \* position of the section decoder
    core,       \* core fields decoded so far
    loop,       \* state of the TCF-EU-v2 restriction loop
    result      \* what from_str returned

vars == <<input, r, out, last, kind, pc, core, loop, result>>

----------------------------------------------------------------------------
(* Bounds *)

\* longest input string given to the slice reader
MaxLen == 5
\* longest input string given to the bit reader
MaxBitLen == 5
\* widest single read_unsigned of the bit reader specification
MaxWidth == 8
\* longest skip of the bit reader specification
MaxSkip == 20
\* widest read that follows a skip
MaxLow == 4

----------------------------------------------------------------------------
(* Arithmetic on machine words *)

Pow2(n) == 2 ^ n

Min(a, b) == IF a <= b THEN a ELSE b

\* ceil(a / b)
CeilDiv(a, b) == (a + b - 1) \div b

----------------------------------------------------------------------------
(* core/base64.rs: the decode table *)

INVALID_B64_VALUE == 0 - 1

BASE64_DECODE_TABLE ==
    [b \in 0..255 |->
        IF b >= 65 /\ b < 65 + 26 THEN b - 65
        ELSE IF b >= 97 /\ b < 97 + 26 THEN b - 97 + 26
        ELSE IF b >= 48 /\ b < 48 + 10 THEN b - 48 + 52
        ELSE IF b = 45 THEN 62
        ELSE IF b = 95 THEN 63
        ELSE INVALID_B64_VALUE]

\* Option<u8>: the value, or INVALID_B64_VALUE for None
base64_value(b) == BASE64_DECODE_TABLE[b]

----------------------------------------------------------------------------
(* core/base64.rs: Base64SliceReader *)

NoError == <<>>
InvalidByte(offset, byte) == <<"InvalidData", "InvalidByte", offset, byte>>
UnexpectedEof == <<"UnexpectedEof", "failed to fill whole buffer">>
InvalidInput == <<"InvalidInput">>

Base64SliceReader_new == [input_pos |-> 0, acc |-> 0, bits |-> 0]

\* The error of the inner loop, reporting the position after the increment.
InvalidByteAt_PostIncrement(rd, byte) == InvalidByte(rd.input_pos + 1, byte)

\* The error raised at line 42-47 on the byte at rd.input_pos (before the
\* increment of line 41): offset is self.input_pos - 1 after the increment.
InvalidByteAt(rd, byte) == InvalidByte(rd.input_pos, byte)

\* The inner while loop (lines 39-50): pull symbols until 8 bits are buffered,
\* the input ends or a byte is not in the alphabet.  acc stays below 2^13, so
\* the u32 shift never loses a bit.
RECURSIVE fill_acc(_, _)
fill_acc(inp, rd) ==
    IF rd.bits < 8 /\ rd.input_pos < Len(inp)
    THEN LET byte == inp[rd.input_pos + 1]
             value == base64_value(byte)
         IN  IF value = INVALID_B64_VALUE
             THEN [reader |-> [rd EXCEPT !.input_pos = @ + 1],
                   err |-> InvalidByteAt(rd, byte)]
             ELSE fill_acc(inp, [input_pos |-> rd.input_pos + 1,
                                 acc |-> rd.acc * 64 + value,
                                 bits |-> rd.bits + 6])
    ELSE [reader |-> rd, err |-> NoError]

\* The final flush of lines 60-65 with the leftover bits right-justified.
flush_byte_RightJustified(rd) == rd.acc % 256

\* The final flush of lines 60-65: (acc << (8 - bits)) as u8
flush_byte(rd) == (rd.acc * Pow2(8 - rd.bits)) % 256

after_flush_KeepBits(s) == s

\* lines 62-63: the accumulator once the tail is flushed
after_flush(s) == [s EXCEPT !.acc = 0, !.bits = 0]

\* One pass of the outer loop of read (lines 52-67) once the inner loop has
\* left f = [reader, err]; buf holds the bytes written so far.  An Err drops
\* the count of bytes already written in this call.
RECURSIVE read_loop(_, _, _, _)
read_loop_body(inp, f, buflen, buf) ==
    LET s == f.reader
        nb == s.bits - 8
    IN  IF f.err # NoError
        THEN [reader |-> s, buf |-> <<>>, err |-> f.err]
        ELSE IF s.bits >= 8
        THEN read_loop(inp,
                       [s EXCEPT !.bits = nb, !.acc = s.acc % Pow2(nb)],
                       buflen,
                       Append(buf, (s.acc \div Pow2(nb)) % 256))
        ELSE IF s.input_pos = Len(inp) /\ s.bits > 0
        THEN [reader |-> after_flush(s),
              buf |-> Append(buf, flush_byte(s)),
              err |-> NoError]
        ELSE [reader |-> s, buf |-> buf, err |-> NoError]

\* The outer loop of read (lines 38-68)
read_loop(inp, rd, buflen, buf) ==
    IF Len(buf) < buflen
    THEN read_loop_body(inp, fill_acc(inp, rd), buflen, buf)
    ELSE [reader |-> rd, buf |-> buf, err |-> NoError]

\* Base64SliceReader::read(buf) with buf.len() = buflen
read(inp, rd, buflen) == read_loop(inp, rd, buflen, <<>>)

----------------------------------------------------------------------------
(* core/base64.rs: Base64BitReader *)

Base64BitReader_new == [reader |-> Base64SliceReader_new, value |-> 0, bits |-> 0]

\* The outcome of read_decoded_byte with a zero byte where the reader has
\* none left.
decoded_byte_ZeroAtEof(rd, rs) ==
    LET nr == [rd EXCEPT !.reader = rs.reader]
    IN  IF rs.err # NoError THEN [r |-> nr, byte |-> 0, err |-> rs.err]
        ELSE IF Len(rs.buf) = 1 THEN [r |-> nr, byte |-> rs.buf[1], err |-> NoError]
        ELSE [r |-> nr, byte |-> 0, err |-> NoError]

\* lines 92-100: what read_decoded_byte makes of the outcome rs of the read:
\* an error of the slice reader is propagated by `?`, 0 bytes read is an
\* UnexpectedEof error
decoded_byte(rd, rs) ==
    LET nr == [rd EXCEPT !.reader = rs.reader]
    IN  IF rs.err # NoError THEN [r |-> nr, byte |-> 0, err |-> rs.err]
        ELSE IF Len(rs.buf) = 1 THEN [r |-> nr, byte |-> rs.buf[1], err |-> NoError]
        ELSE [r |-> nr, byte |-> 0, err |-> UnexpectedEof]

\* read_decoded_byte: one read with a 1-byte buffer
read_decoded_byte(inp, rd) == decoded_byte(rd, read(inp, rd.reader, 1))

\* trim_queue leaving the consumed bits in the pending byte.
trim_queue_Untrimmed(rd) == rd

\* trim_queue: value &= (1u8 << bits) - 1.  The shift amount of a u8 is taken
\* modulo 8 by a release build; no caller reaches it with bits = 8.
trim_queue(rd) ==
    IF rd.bits = 0 THEN [rd EXCEPT !.value = 0]
    ELSE [rd EXCEPT !.value = rd.value % Pow2(rd.bits % 8)]

\* lines 117-118 and 143-144: the decoded byte p becomes the pending byte
refill_with(p) ==
    IF p.err # NoError THEN [r |-> p.r, err |-> p.err]
    ELSE [r |-> [p.r EXCEPT !.value = p.byte, !.bits = 8], err |-> NoError]

\* lines 116-119 and 142-145: refill the pending byte when no bit is buffered
refill(inp, rd) ==
    IF rd.bits = 0 THEN refill_with(read_decoded_byte(inp, rd))
    ELSE [r |-> rd, err |-> NoError]

\* lines 120-124: the top bit of the pending byte of f.r
take_bit(f) ==
    LET nb == f.r.bits - 1
        bit == (f.r.value \div Pow2(nb)) % 2
    IN  IF f.err # NoError THEN [r |-> f.r, bit |-> FALSE, err |-> f.err]
        ELSE [r |-> trim_queue([f.r EXCEPT !.bits = nb]),
              bit |-> (bit = 1), err |-> NoError]

read_bit(inp, rd) == take_bit(refill(inp, rd))

\* UnsignedInteger::shl_default for a type of USize bits.  Types of 32 bits
\* and more are only read with widths that cannot overflow them.
shl_default(value, n, USize) ==
    IF n >= USize THEN 0
    ELSE IF USize >= 31 THEN value * Pow2(n)
    ELSE (value * Pow2(n)) % Pow2(USize)

\* The chunk of line 154 taken from the low end of the pending byte.
chunk_of_LowEnd(value, shift, take) == value % Pow2(take)

\* line 147-154: chunk = (self.value >> shift) & mask
chunk_of(value, shift, take) ==
    LET mask == IF take = 8 THEN 255 ELSE Pow2(take) - 1
    IN  (value \div Pow2(shift)) % (mask + 1)

\* one pass of the while loop of read_unsigned_counted (lines 147-159) on the
\* refilled reader f.r
RECURSIVE read_unsigned_loop(_, _, _, _, _)
read_unsigned_step(inp, f, remaining, value, USize) ==
    LET take == Min(remaining, f.r.bits)
        shift == f.r.bits - take
        chunk == chunk_of(f.r.value, shift, take)
    IN  IF f.err # NoError THEN [r |-> f.r, value |-> 0, err |-> f.err]
        ELSE read_unsigned_loop(inp,
                                trim_queue([f.r EXCEPT !.bits = @ - take]),
                                remaining - take,
                                shl_default(value, take, USize) + chunk,
                                USize)

\* the while loop of read_unsigned_counted (lines 141-160)
read_unsigned_loop(inp, rd, remaining, value, USize) ==
    IF remaining > 0
    THEN read_unsigned_step(inp, refill(inp, rd), remaining, value, USize)
    ELSE [r |-> rd, value |-> value, err |-> NoError]

\* read_unsigned_counted::<MAX, U>(bits) with U::BITS_SIZE = USize
read_unsigned_counted(inp, rd, bits, USize) ==
    IF bits > USize THEN [r |-> rd, value |-> 0, err |-> InvalidInput]
    ELSE read_unsigned_loop(inp, rd, bits, 0, USize)

\* lines 189-195: as_negative(bits) is unsigned - 2^(bits-1)
as_signed(u, is_negative, bits) ==
    IF u.err # NoError THEN u
    ELSE [u EXCEPT !.value = IF is_negative THEN @ - Pow2(bits - 1) ELSE @]

\* lines 187-195: the magnitude that follows the sign bit s
read_magnitude(inp, s, bits, SSize) ==
    IF s.err # NoError THEN [r |-> s.r, value |-> 0, err |-> s.err]
    ELSE as_signed(read_unsigned_counted(inp, s.r, bits - 1, SSize), s.bit, bits)

\* read_signed_counted::<MAX, S>(bits) with S::BITS_SIZE = SSize; the sign
\* bit comes first
read_signed_counted(inp, rd, bits, SSize) ==
    IF bits < 1 \/ bits > SSize THEN [r |-> rd, value |-> 0, err |-> InvalidInput]
    ELSE read_magnitude(inp, read_bit(inp, rd), bits, SSize)

\* one pass of the while loop of skip (lines 238-239) on the decoded byte p
RECURSIVE skip_bytes(_, _, _)
skip_bytes_step(inp, p, bits) ==
    IF p.err # NoError THEN [r |-> p.r, bits |-> bits, err |-> p.err]
    ELSE skip_bytes(inp, p.r, bits - 8)

\* the while loop of skip (lines 237-240)
skip_bytes(inp, rd, bits) ==
    IF bits >= 8 THEN skip_bytes_step(inp, read_decoded_byte(inp, rd), bits)
    ELSE [r |-> rd, bits |-> bits, err |-> NoError]

\* The realignment of line 244 keeping as many bits as were skipped.
skip_realign_Swapped(bits) == bits

\* line 244: self.bits = 8 - bits
skip_realign(bits) == 8 - bits

\* lines 243-245: the decoded byte p becomes the pending byte, less the
\* bits still to skip
skip_partial(p, bits) ==
    IF p.err # NoError THEN [r |-> p.r, err |-> p.err]
    ELSE [r |-> trim_queue([p.r EXCEPT !.value = p.byte,
                                       !.bits = skip_realign(bits)]),
          err |-> NoError]

\* lines 242-248: what follows the whole bytes skipped by w
skip_tail(inp, w) ==
    IF w.err # NoError THEN [r |-> w.r, err |-> w.err]
    ELSE IF w.bits > 0 THEN skip_partial(read_decoded_byte(inp, w.r), w.bits)
    ELSE [r |-> w.r, err |-> NoError]

skip(inp, rd, bits) ==
    IF bits = 0 THEN [r |-> rd, err |-> NoError]
    ELSE LET take == IF rd.bits > 0 THEN Min(bits, rd.bits) ELSE 0
             r1 == IF rd.bits > 0 THEN trim_queue([rd EXCEPT !.bits = @ - take]) ELSE rd
         IN  skip_tail(inp, skip_bytes(inp, r1, bits - take))

\* one pass of read_exact on the outcome rs of a read
RECURSIVE read_exact(_, _, _, _)
read_exact_step(inp, rs, buflen, buf) ==
    IF rs.err # NoError THEN [reader |-> rs.reader, buf |-> buf, err |-> rs.err]
    ELSE IF Len(rs.buf) = 0
    THEN [reader |-> rs.reader, buf |-> buf, err |-> UnexpectedEof]
    ELSE read_exact(inp, rs.reader, buflen, buf \o rs.buf)

\* std::io::Read::read_exact over Base64SliceReader::read: read until the
\* buffer is full; a read of 0 bytes is UnexpectedEof.
read_exact(inp, rd, buflen, buf) ==
    IF Len(buf) < buflen
    THEN read_exact_step(inp, read(inp, rd, buflen - Len(buf)), buflen, buf)
    ELSE [reader |-> rd, buf |-> buf, err |-> NoError]

\* line 257: one byte u of the unaligned path of read_bytes
RECURSIVE read_bytes_loop(_, _, _, _)
read_bytes_step(inp, u, buflen, buf) ==
    IF u.err # NoError THEN [r |-> u.r, buf |-> buf, err |-> u.err]
    ELSE read_bytes_loop(inp, u.r, buflen, Append(buf, u.value))

\* the for loop of the unaligned path of read_bytes (lines 256-258)
read_bytes_loop(inp, rd, buflen, buf) ==
    IF Len(buf) < buflen
    THEN read_bytes_step(inp, read_unsigned_counted(inp, rd, 8, 8), buflen, buf)
    ELSE [r |-> rd, buf |-> buf, err |-> NoError]

\* line 254: the aligned path hands the buffer to the slice reader
read_bytes_aligned(rd, e) ==
    [r |-> [rd EXCEPT !.reader = e.reader], buf |-> e.buf, err |-> e.err]

read_bytes(inp, rd, buflen) ==
    IF rd.bits = 0
    THEN read_bytes_aligned(rd, read_exact(inp, rd.reader, buflen, <<>>))
    ELSE read_bytes_loop(inp, rd, buflen, <<>>)

byte_aligned(rd) == rd.bits = 0

byte_align(rd) == [rd EXCEPT !.value = 0, !.bits = 0]

----------------------------------------------------------------------------
(* core/mod.rs (DataRead): the field readers the section schemas name.      *)
(* Their code is not part of the sources at hand; they follow the design    *)
(* document (Integer-Set Codec) and the TCF wire format.                    *)

IsEof(source) == source # NoError /\ source[1] = "UnexpectedEof"

\* bit i of a fixed bitfield, once read as b
RECURSIVE read_fixed_bitfield_loop(_, _, _, _, _)
read_fixed_bitfield_step(inp, b, n, i, ids) ==
    IF b.err # NoError THEN [r |-> b.r, value |-> {}, err |-> b.err]
    ELSE read_fixed_bitfield_loop(inp, b.r, n, i + 1,
                                  IF b.bit THEN ids \cup {i} ELSE ids)

\* fixed_bitfield(n): bit i of the n bits read (1-based, MSB first) set means
\* id i is a member
read_fixed_bitfield_loop(inp, rd, n, i, ids) ==
    IF i <= n THEN read_fixed_bitfield_step(inp, read_bit(inp, rd), n, i, ids)
    ELSE [r |-> rd, value |-> ids, err |-> NoError]

read_fixed_bitfield(inp, rd, n) == read_fixed_bitfield_loop(inp, rd, n, 1, {})

\* an interval entry of a compact range list, once its end is read as en
RECURSIVE read_integer_range_loop(_, _, _, _)
range_entry_end(inp, st, en, remaining, ids) ==
    IF en.err # NoError THEN [r |-> en.r, value |-> {}, err |-> en.err]
    ELSE read_integer_range_loop(inp, en.r, remaining - 1,
                                 ids \cup (st.value..en.value))

\* an entry of a compact range list, once its first id is read as st
range_entry_start(inp, g, st, remaining, ids) ==
    IF st.err # NoError THEN [r |-> st.r, value |-> {}, err |-> st.err]
    ELSE IF ~g.bit
    THEN read_integer_range_loop(inp, st.r, remaining - 1, ids \cup {st.value})
    ELSE range_entry_end(inp, st, read_unsigned_counted(inp, st.r, 16, 16),
                         remaining, ids)

\* an entry of a compact range list, once its flag bit is read as g
range_entry(inp, g, remaining, ids) ==
    IF g.err # NoError THEN [r |-> g.r, value |-> {}, err |-> g.err]
    ELSE range_entry_start(inp, g, read_unsigned_counted(inp, g.r, 16, 16),
                           remaining, ids)

\* the entries of a compact range list: a flag bit, then one 16-bit id or two
\* 16-bit bounds of an inclusive interval
read_integer_range_loop(inp, rd, remaining, ids) ==
    IF remaining > 0 THEN range_entry(inp, read_bit(inp, rd), remaining, ids)
    ELSE [r |-> rd, value |-> ids, err |-> NoError]

\* the entries that follow the count n of a compact range list
range_entries(inp, n) ==
    IF n.err # NoError THEN [r |-> n.r, value |-> {}, err |-> n.err]
    ELSE read_integer_range_loop(inp, n.r, n.value, {})

\* compact range encoding: a 12-bit count, then that many entries
read_integer_range(inp, rd) ==
    range_entries(inp, read_unsigned_counted(inp, rd, 12, 16))

\* the set that follows the maximum id len and the flag bit
optimized_range_set(inp, len, flag) ==
    IF flag.err # NoError THEN [r |-> flag.r, value |-> {}, err |-> flag.err]
    ELSE IF flag.bit THEN read_integer_range(inp, flag.r)
    ELSE read_fixed_bitfield(inp, flag.r, len.value)

\* the flag bit that follows the maximum id len
optimized_range_flag(inp, len) ==
    IF len.err # NoError THEN [r |-> len.r, value |-> {}, err |-> len.err]
    ELSE optimized_range_set(inp, len, read_bit(inp, len.r))

\* optimized_integer_range: 16-bit maximum id, one flag bit, then the compact
\* range encoding (flag set) or a bitfield of max-id bits (flag clear)
read_optimized_integer_range(inp, rd) ==
    optimized_range_flag(inp, read_unsigned_counted(inp, rd, 16, 16))

\* one letter c of a string
RECURSIVE read_string_loop(_, _, _, _)
read_string_step(inp, c, n, str) ==
    IF c.err # NoError THEN [r |-> c.r, value |-> <<>>, err |-> c.err]
    ELSE read_string_loop(inp, c.r, n, Append(str, 65 + c.value))

\* string(n): n letters of 6 bits each, 0 standing for 'A'
read_string_loop(inp, rd, n, str) ==
    IF Len(str) < n
    THEN read_string_step(inp, read_unsigned_counted(inp, rd, 6, 8), n, str)
    ELSE [r |-> rd, value |-> str, err |-> NoError]

read_string(inp, rd, n) == read_string_loop(inp, rd, n, <<>>)

\* the timestamp made of its two halves
datetime_of(hi, lo) ==
    IF lo.err # NoError THEN [r |-> lo.r, value |-> <<>>, err |-> lo.err]
    ELSE [r |-> lo.r, value |-> <<hi.value, lo.value>>, err |-> NoError]

\* the low half that follows the high half hi
datetime_low(inp, hi) ==
    IF hi.err # NoError THEN [r |-> hi.r, value |-> <<>>, err |-> hi.err]
    ELSE datetime_of(hi, read_unsigned_counted(inp, hi.r, 18, 64))

\* datetime_as_unix_timestamp: a 36-bit count of deciseconds, kept here as
\* its high and low 18 bits
read_datetime_as_unix_timestamp(inp, rd) ==
    datetime_low(inp, read_unsigned_counted(inp, rd, 18, 64))

\* an entry of the keyed range list, once its nested range list is read
RECURSIVE read_n_array_of_ranges_loop(_, _, _, _, _, _)
keyed_range_ids(inp, key, ty, ids, x, y, remaining, ranges) ==
    IF ids.err # NoError THEN [r |-> ids.r, value |-> <<>>, err |-> ids.err]
    ELSE read_n_array_of_ranges_loop(inp, ids.r, x, y, remaining - 1,
             Append(ranges, [key |-> key.value, range_type |-> ty.value,
                             ids |-> ids.value]))

\* an entry of the keyed range list, once its discriminant is read as ty
keyed_range_type(inp, key, ty, x, y, remaining, ranges) ==
    IF ty.err # NoError THEN [r |-> ty.r, value |-> <<>>, err |-> ty.err]
    ELSE keyed_range_ids(inp, key, ty, read_integer_range(inp, ty.r),
                         x, y, remaining, ranges)

\* an entry of the keyed range list, once its key is read
keyed_range_key(inp, key, x, y, remaining, ranges) ==
    IF key.err # NoError THEN [r |-> key.r, value |-> <<>>, err |-> key.err]
    ELSE keyed_range_type(inp, key, read_unsigned_counted(inp, key.r, y, 8),
                          x, y, remaining, ranges)

\* the entries of the keyed range list: key, discriminant, nested range list
read_n_array_of_ranges_loop(inp, rd, x, y, remaining, ranges) ==
    IF remaining > 0
    THEN keyed_range_key(inp, read_unsigned_counted(inp, rd, x, 8),
                         x, y, remaining, ranges)
    ELSE [r |-> rd, value |-> ranges, err |-> NoError]

\* the entries that follow the leading count n of the keyed range list
keyed_ranges(inp, n, x, y) ==
    IF n.err # NoError THEN [r |-> n.r, value |-> <<>>, err |-> n.err]
    ELSE read_n_array_of_ranges_loop(inp, n.r, x, y, n.value, <<>>)

\* keyed range list: a leading 12-bit count, then the entries; any failure
\* is returned to the caller
read_n_array_of_ranges(inp, rd, x, y) ==
    keyed_ranges(inp, read_unsigned_counted(inp, rd, 12, 16), x, y)

\* a bool field is one bit
bool_field(b) == [r |-> b.r, value |-> b.bit, err |-> b.err]

\* a field read by the derived FromBitStream: its type and attribute decide
\* the reader (u8: 6 bits, u16: 12 bits, bool: 1 bit)
read_field(inp, rd, f) ==
    IF f.type = "u8" THEN read_unsigned_counted(inp, rd, 6, 8)
    ELSE IF f.type = "u16" THEN read_unsigned_counted(inp, rd, 12, 16)
    ELSE IF f.type = "bool" THEN bool_field(read_bit(inp, rd))
    ELSE IF f.type = "datetime_as_unix_timestamp"
    THEN read_datetime_as_unix_timestamp(inp, rd)
    ELSE IF f.type = "string" THEN read_string(inp, rd, f.n)
    ELSE IF f.type = "fixed_bitfield" THEN read_fixed_bitfield(inp, rd, f.n)
    ELSE read_optimized_integer_range(inp, rd)

----------------------------------------------------------------------------
(* sections: errors and discriminants *)

\* SectionDecodeError::Read { source }
Read_(source) == <<"Read", source>>
\* SectionDecodeError::UnknownSegmentVersion { segment_version }
UnknownSegmentVersion(segment_version) == <<"UnknownSegmentVersion", segment_version>>

\* RestrictionType::from_u8(x).unwrap_or(RestrictionType::Undefined)
RestrictionType_from_u8(x) == IF x \in 0..3 THEN x ELSE 3

----------------------------------------------------------------------------
(* sections/tcfcav1.rs *)

\* the fields of CoreData before pub_restrictions, in declaration order
tcfcav1_CoreData ==
    << [name |-> "created", type |-> "datetime_as_unix_timestamp", n |-> 0],
       [name |-> "last_updated", type |-> "datetime_as_unix_timestamp", n |-> 0],
       [name |-> "cmp_id", type |-> "u16", n |-> 0],
       [name |-> "cmp_version", type |-> "u16", n |-> 0],
       [name |-> "consent_screen", type |-> "u8", n |-> 0],
       [name |-> "consent_language", type |-> "string", n |-> 2],
       [name |-> "vendor_list_version", type |-> "u16", n |-> 0],
       [name |-> "policy_version", type |-> "u8", n |-> 0],
       [name |-> "use_non_standard_stacks", type |-> "bool", n |-> 0],
       [name |-> "special_feature_express_consents", type |-> "fixed_bitfield", n |-> 12],
       [name |-> "purpose_express_consents", type |-> "fixed_bitfield", n |-> 24],
       [name |-> "purpose_implied_consents", type |-> "fixed_bitfield", n |-> 24],
       [name |-> "vendor_express_consents", type |-> "optimized_integer_range", n |-> 0],
       [name |-> "vendor_implied_consents", type |-> "optimized_integer_range", n |-> 0] >>

\* The version test of from_reader before version 2 was accepted.
tcfcav1_version_accepted_OnlyV1(segment_version) == segment_version = 1

\* from_reader, line 83: segment_version != 1 && segment_version != 2 fails
tcfcav1_version_accepted(segment_version) ==
    ~(segment_version # 1 /\ segment_version # 2)

\* lines 114-121: each range mapped to a PublisherRestriction
tcfcav1_restrictions_of(ranges) ==
    [i \in 1..Len(ranges) |->
        [purpose_id |-> ranges[i].key,
         restriction_type |-> RestrictionType_from_u8(ranges[i].range_type),
         restricted_vendor_ids |-> ranges[i].ids]]

\* The result a of read_n_array_of_ranges taken with `?` in place of
\* unwrap_or_default.
tcfcav1_ranges_or_default_Propagating(a) ==
    [r |-> a.r,
     value |-> tcfcav1_restrictions_of(a.value),
     err |-> IF a.err # NoError THEN Read_(a.err) ELSE NoError]

\* lines 111-121: any Err of read_n_array_of_ranges is replaced by the empty
\* list (unwrap_or_default)
tcfcav1_ranges_or_default(a) ==
    [r |-> a.r,
     value |-> tcfcav1_restrictions_of(IF a.err # NoError THEN <<>> ELSE a.value),
     err |-> NoError]

\* parse_publisher_restrictions: read_n_array_of_ranges(6, 2)
tcfcav1_parse_publisher_restrictions(inp, rd) ==
    tcfcav1_ranges_or_default(read_n_array_of_ranges(inp, rd, 6, 2))

----------------------------------------------------------------------------
(* sections/tcfeuv2.rs *)

\* the fields of Core before publisher_restrictions, in declaration order
tcfeuv2_Core ==
    << [name |-> "created", type |-> "datetime_as_unix_timestamp", n |-> 0],
       [name |-> "last_updated", type |-> "datetime_as_unix_timestamp", n |-> 0],
       [name |-> "cmp_id", type |-> "u16", n |-> 0],
       [name |-> "cmp_version", type |-> "u16", n |-> 0],
       [name |-> "consent_screen", type |-> "u8", n |-> 0],
       [name |-> "consent_language", type |-> "string", n |-> 2],
       [name |-> "vendor_list_version", type |-> "u16", n |-> 0],
       [name |-> "policy_version", type |-> "u8", n |-> 0],
       [name |-> "is_service_specific", type |-> "bool", n |-> 0],
       [name |-> "use_non_standard_stacks", type |-> "bool", n |-> 0],
       [name |-> "special_feature_optins", type |-> "fixed_bitfield", n |-> 12],
       [name |-> "purpose_consents", type |-> "fixed_bitfield", n |-> 24],
       [name |-> "purpose_legitimate_interests", type |-> "fixed_bitfield", n |-> 24],
       [name |-> "purpose_one_treatment", type |-> "bool", n |-> 0],
       [name |-> "publisher_country_code", type |-> "string", n |-> 2],
       [name |-> "vendor_consents", type |-> "optimized_integer_range", n |-> 0],
       [name |-> "vendor_legitimate_interests", type |-> "optimized_integer_range", n |-> 0] >>

\* #[gpp(section_version = 2)]
tcfeuv2_version_accepted(segment_version) == segment_version = 2

\* what a match arm does with the Err of a read
Break == "break"
Fail == "fail"

\* The arms of lines 113-121 with the first restriction tolerated as well.
on_vendor_id_error_TolerateFirst(source, restriction_idx) ==
    IF IsEof(source) THEN Break ELSE Fail

\* lines 113-121 and 126-134: UnexpectedEof while reading a 16-bit vendor id
\* is Ok(None) past the first restriction and an error in the first one
on_vendor_id_error(source, restriction_idx) ==
    IF IsEof(source)
    THEN (IF restriction_idx > 0 THEN Break ELSE Fail)
    ELSE Fail

\* The arms of lines 67-69 with UnexpectedEof treated like any other error.
on_field_error_Fatal(source) == Fail

\* lines 67-69, 72-74, 98-100, 106-108: UnexpectedEof ends the list, any
\* other error fails the decode
on_field_error(source) == IF IsEof(source) THEN Break ELSE Fail

\* the outcome of read_publisher_restriction_integer_range_compat:
\* Ok(Some(ids)), Ok(None) or Err(Read { source })
CompatSome(rd, ids) == [r |-> rd, some |-> TRUE, ids |-> ids, err |-> NoError]
CompatNone(rd) == [r |-> rd, some |-> FALSE, ids |-> {}, err |-> NoError]
CompatErr(rd, source) == [r |-> rd, some |-> FALSE, ids |-> {}, err |-> Read_(source)]

CompatOn(action, rd, source) ==
    IF action = Break THEN CompatNone(rd) ELSE CompatErr(rd, source)

\* lines 124-141: an interval entry, once its end is read
RECURSIVE compat_entries(_, _, _, _, _)
\* The interval of lines 136-138 taken between the smaller and the larger
\* bound, whichever comes first.
compat_entry_end_Normalised(inp, start, end, restriction_idx, remaining, ids) ==
    IF end.err # NoError
    THEN CompatOn(on_vendor_id_error(end.err, restriction_idx), end.r, end.err)
    ELSE compat_entries(inp, end.r, restriction_idx, remaining - 1,
                        ids \cup (Min(start.value, end.value)
                                     ..(start.value + end.value
                                          - Min(start.value, end.value))))

compat_entry_end(inp, start, end, restriction_idx, remaining, ids) ==
    IF end.err # NoError
    THEN CompatOn(on_vendor_id_error(end.err, restriction_idx), end.r, end.err)
    ELSE compat_entries(inp, end.r, restriction_idx, remaining - 1,
                        ids \cup (start.value..end.value))

\* lines 111-141: an entry, once its first id is read as start
compat_entry_start(inp, is_group, start, restriction_idx, remaining, ids) ==
    IF start.err # NoError
    THEN CompatOn(on_vendor_id_error(start.err, restriction_idx),
                  start.r, start.err)
    ELSE IF ~is_group.bit
    THEN compat_entries(inp, start.r, restriction_idx, remaining - 1,
                        ids \cup {start.value})
    ELSE compat_entry_end(inp, start,
                          read_unsigned_counted(inp, start.r, 16, 16),
                          restriction_idx, remaining, ids)

\* lines 105-141: an entry, once its flag bit is read as is_group
compat_entry(inp, is_group, restriction_idx, remaining, ids) ==
    IF is_group.err # NoError
    THEN CompatOn(on_field_error(is_group.err), is_group.r, is_group.err)
    ELSE compat_entry_start(inp, is_group,
                            read_unsigned_counted(inp, is_group.r, 16, 16),
                            restriction_idx, remaining, ids)

\* the for loop of lines 104-142
compat_entries(inp, rd, restriction_idx, remaining, ids) ==
    IF remaining > 0
    THEN compat_entry(inp, read_bit(inp, rd), restriction_idx, remaining, ids)
    ELSE CompatSome(rd, ids)

\* lines 97-144: what follows the read of the count n
compat_count(inp, n, restriction_idx) ==
    IF n.err # NoError
    THEN CompatOn(on_field_error(n.err), n.r, n.err)
    ELSE compat_entries(inp, n.r, restriction_idx, n.value, {})

read_publisher_restriction_integer_range_compat(inp, rd, restriction_idx) ==
    compat_count(inp, read_unsigned_counted(inp, rd, 12, 16), restriction_idx)

\* an iteration that ends on the failed read x of the field `at`
restriction_stop(action, x, at) ==
    [r |-> x.r, step |-> action, at |-> at,
     err |-> IF action = Fail THEN Read_(x.err) ELSE NoError,
     restriction |-> <<>>]

\* lines 76-87: the match on the vendor ids and the push
restriction_ids(purpose_id, restriction_type, ids) ==
    IF ids.err # NoError
    THEN [r |-> ids.r, step |-> Fail, at |-> "restricted_vendor_ids",
          err |-> ids.err, restriction |-> <<>>]
    ELSE IF ~ids.some
    THEN [r |-> ids.r, step |-> Break, at |-> "restricted_vendor_ids",
          err |-> NoError, restriction |-> <<>>]
    ELSE [r |-> ids.r, step |-> "push", at |-> "", err |-> NoError,
          restriction |->
              [purpose_id |-> purpose_id.value,
               restriction_type |-> RestrictionType_from_u8(restriction_type.value),
               restricted_vendor_ids |-> ids.ids]]

\* lines 71-87: the match on restriction_type and what follows
restriction_type_arm(inp, purpose_id, restriction_type, restriction_idx) ==
    IF restriction_type.err # NoError
    THEN restriction_stop(on_field_error(restriction_type.err),
                          restriction_type, "restriction_type")
    ELSE restriction_ids(purpose_id, restriction_type,
             read_publisher_restriction_integer_range_compat(
                 inp, restriction_type.r, restriction_idx))

\* lines 66-87: the match on purpose_id and what follows
purpose_id_arm(inp, purpose_id, restriction_idx) ==
    IF purpose_id.err # NoError
    THEN restriction_stop(on_field_error(purpose_id.err), purpose_id, "purpose_id")
    ELSE restriction_type_arm(inp, purpose_id,
                              read_unsigned_counted(inp, purpose_id.r, 2, 8),
                              restriction_idx)

\* The body of the for loop of parse_publisher_restrictions (lines 66-87):
\* "push" with the restriction, "break", or "fail" with the error.
restriction_body(inp, rd, restrictions) ==
    purpose_id_arm(inp, read_unsigned_counted(inp, rd, 6, 8), Len(restrictions))

----------------------------------------------------------------------------
(* Inputs of the reader specifications *)

\* 'A' = 0, 'Z' = 25 (011001), 'm' = 38 (100110), '_' = 63 and the invalid '='
SliceAlphabet == {65, 90, 109, 95, 61}

\* 'Z', 'm' and the invalid ' '
BitAlphabet == {90, 109, 32}

StringsOver(S, n) == UNION {[1..k -> S] : k \in 0..n}

AlphabetValid(inp) == \A i \in 1..Len(inp) : base64_value(inp[i]) # INVALID_B64_VALUE

Idle == [op |-> "none", ok |-> TRUE]

----------------------------------------------------------------------------
(* Specification of the slice reader: any sequence of read calls *)

BufSizes == {1, 2, MaxLen}

InitSlice ==
    /\ input \in StringsOver(SliceAlphabet, MaxLen)
    /\ r = Base64BitReader_new
    /\ out = <<>>
    /\ last = [op |-> "none", buflen |-> 0, n |-> 0, err |-> NoError, first |-> FALSE]
    /\ kind = "none"
    /\ pc = "slice"
    /\ core = <<>>
    /\ loop = <<>>
    /\ result = <<>>

\* one call of Base64SliceReader::read with a buffer of buflen bytes
Read(buflen) ==
    /\ pc = "slice"
    /\ LET rs == read(input, r.reader, buflen)
       IN  /\ r' = [r EXCEPT !.reader = rs.reader]
           /\ out' = out \o rs.buf
           /\ last' = [op |-> "read", buflen |-> buflen,
                       n |-> Len(rs.buf), err |-> rs.err,
                       first |-> (last.op = "none")]
    /\ UNCHANGED <<input, kind, pc, core, loop, result>>

NextSlice == \E buflen \in BufSizes : Read(buflen)

SpecSlice == InitSlice /\ [][NextSlice]_vars

----------------------------------------------------------------------------
(* Specification of the bit reader: any sequence of BitRead operations *)

\* strings of at most MaxBitLen symbols, at most one of them invalid
BitInputs ==
    { str \in StringsOver(BitAlphabet, MaxBitLen) :
          Cardinality({ i \in 1..Len(str) : base64_value(str[i]) = INVALID_B64_VALUE }) <= 1 }

InitBits ==
    /\ input \in BitInputs
    /\ r = Base64BitReader_new
    /\ out = <<>>
    /\ last = Idle
    /\ kind = "none"
    /\ pc = "bits"
    /\ core = <<>>
    /\ loop = <<>>
    /\ result = <<>>

\* a BitRead operation leaves the reader in the state res.r, failed or not
BitOp(res) ==
    /\ r' = res.r
    /\ UNCHANGED <<input, out, last, kind, pc, core, loop, result>>

ReadBit ==
    /\ pc = "bits"
    /\ BitOp(read_bit(input, r))

ReadUnsigned(w) ==
    /\ pc = "bits"
    /\ BitOp(read_unsigned_counted(input, r, w, 16))

ReadSigned(w) ==
    /\ pc = "bits"
    /\ BitOp(read_signed_counted(input, r, w, 16))

Skip(n) ==
    /\ pc = "bits"
    /\ BitOp(skip(input, r, n))

ReadBytes(k) ==
    /\ pc = "bits"
    /\ BitOp(read_bytes(input, r, k))

ByteAlign ==
    /\ pc = "bits"
    /\ BitOp([r |-> byte_align(r), err |-> NoError])

NextBits ==
    \/ ReadBit
    \/ \E w \in 0..MaxWidth : ReadUnsigned(w)
    \/ \E w \in 0..MaxWidth : ReadSigned(w)
    \/ \E n \in 0..MaxSkip : Skip(n)
    \/ \E k \in 1..2 : ReadBytes(k)
    \/ ByteAlign

SpecBits == InitBits /\ [][NextBits]_vars

----------------------------------------------------------------------------
(* Inputs of the section specification *)

\* benches/decode.rs: TCF_EU_V2
TCF_EU_V2 ==
    << 67, 80, 88, 120, 82, 102, 65, 80, 88, 120, 82, 102, 65, 65, 102, 75,
       65, 66, 69, 78, 66, 45, 67, 103, 65, 65, 65, 65, 65, 65, 65, 65, 65,
       65, 89, 103, 65, 65, 65, 65, 65, 65, 65, 65 >>

\* sections/tcfcav1.rs, tests::section_version_2_decodes: the core segment
TCF_CA_V1 ==
    << 67, 80, 117, 121, 48, 73, 65, 80, 117, 121, 48, 73, 65, 80, 111, 65,
       66, 65, 66, 71, 67, 121, 67, 65, 65, 65, 65, 65, 65, 65, 65, 65, 65,
       65, 65, 65, 65, 65, 65, 65 >>

\* the largest restriction count a generated input declares
MaxCount == 3

\* w bits of v, MSB first
BitsOf(v, w) == [i \in 1..w |-> (v \div Pow2(w - i)) % 2]

\* the symbols of a bit string, the last one zero-filled
Encode(bs) ==
    [k \in 1..CeilDiv(Len(bs), 6) |->
        LET o == 6 * (k - 1)
            b(j) == IF o + j <= Len(bs) THEN bs[o + j] ELSE 0
        IN  LET v == b(1) * 32 + b(2) * 16 + b(3) * 8 + b(4) * 4 + b(5) * 2 + b(6)
            IN  IF v < 26 THEN 65 + v
                ELSE IF v < 52 THEN 97 + (v - 26)
                ELSE IF v < 62 THEN 48 + (v - 52)
                ELSE IF v = 62 THEN 45 ELSE 95]

BitsOfSymbols(inp) ==
    [j \in 1..(6 * Len(inp)) |->
        (base64_value(inp[((j - 1) \div 6) + 1]) \div Pow2(5 - ((j - 1) % 6))) % 2]

\* bits of the fixed-width core fields that follow the version
FixedWidth(k) == IF k = "TcfCaV1" THEN 199 ELSE 213

SampleBody(k) ==
    SubSeq(BitsOfSymbols(IF k = "TcfCaV1" THEN TCF_CA_V1 ELSE TCF_EU_V2),
           7, FixedWidth(k))

EntryBits(e) ==
    IF e.is_group THEN <<1>> \o BitsOf(e.start, 16) \o BitsOf(e.end, 16)
    ELSE <<0>> \o BitsOf(e.start, 16)

RECURSIVE Concat(_)
Concat(ss) == IF ss = <<>> THEN <<>> ELSE Head(ss) \o Concat(Tail(ss))

RangeBits(entries) ==
    BitsOf(Len(entries), 12) \o Concat([i \in 1..Len(entries) |-> EntryBits(entries[i])])

Single(id) == [is_group |-> FALSE, start |-> id, end |-> id]
Group(a, b) == [is_group |-> TRUE, start |-> a, end |-> b]

\* the two vendor sets of a core: both empty bitfields, or a 3-bit bitfield
\* {1, 3} and the range list {5..8}
VendorVariants ==
    { BitsOf(0, 17) \o BitsOf(0, 17),
      BitsOf(3, 16) \o <<0>> \o <<1, 0, 1>>
          \o BitsOf(8, 16) \o <<1>> \o RangeBits(<<Group(5, 8)>>) }

RestrictionBits(purpose_id, restriction_type, entries) ==
    BitsOf(purpose_id, 6) \o BitsOf(restriction_type, 2) \o RangeBits(entries)

RestrictionPool ==
    << RestrictionBits(3, 1, <<Single(42)>>),
       RestrictionBits(5, 3, <<Group(5, 8), Single(42)>>),
       RestrictionBits(7, 0, <<Group(8, 5)>>) >>

\* a restriction list declaring c restrictions and holding the first p
TailBits(c, p) == BitsOf(c, 12) \o Concat(SubSeq(RestrictionPool, 1, p))

Tails ==
    { TailBits(c, p) : c \in 0..MaxCount, p \in 0..Len(RestrictionPool) }
        \cup { <<>>, BitsOf(0, 12) \o BitsOf(0, 18) }

\* segment versions of the generated inputs: 1, 2 and the 25 of 'Z'
Versions == {1, 2, 25}

FullStrings(k) ==
    { Encode(BitsOf(v, 6) \o SampleBody(k) \o vv \o t) :
          v \in Versions, vv \in VendorVariants, t \in Tails }

\* '=' in place of the symbol at position p
Corrupt(str, p) == [str EXCEPT ![p] = 61]

SectionInputs(k) ==
    UNION { { SubSeq(str, 1, n) : n \in 0..Len(str) }
              \cup { Corrupt(str, p) : p \in 1..Len(str) } : str \in FullStrings(k) }

----------------------------------------------------------------------------
(* Specification of the section decoders: from_str on one core segment *)

NoResult == [status |-> "none", err |-> NoError, record |-> <<>>]
Ok(record) == [status |-> "ok", err |-> NoError, record |-> record]
Err(e) == [status |-> "err", err |-> e, record |-> <<>>]

CoreFields == IF kind = "TcfCaV1" THEN tcfcav1_CoreData ELSE tcfeuv2_Core

version_accepted(segment_version) ==
    IF kind = "TcfCaV1" THEN tcfcav1_version_accepted(segment_version)
    ELSE tcfeuv2_version_accepted(segment_version)

InitSection ==
    /\ kind \in {"TcfCaV1", "TcfEuV2"}
    /\ input \in SectionInputs(kind)
    /\ r = Base64BitReader_new
    /\ out = <<>>
    /\ last = Idle
    /\ pc = "version"
    /\ core = <<>>
    /\ loop = <<>>
    /\ result = NoResult

Failed(rd, e) ==
    /\ r' = rd
    /\ result' = Err(e)
    /\ pc' = "done"
    /\ UNCHANGED <<core, loop>>

\* tcfcav1.rs lines 82-85, and the section_version check of the derived
\* tcfeuv2 Core: the 6-bit segment version comes first
ReadSegmentVersion ==
    /\ pc = "version"
    /\ LET v == read_unsigned_counted(input, r, 6, 8)
       IN  IF v.err # NoError THEN Failed(v.r, Read_(v.err))
           ELSE IF ~version_accepted(v.value)
           THEN Failed(v.r, UnknownSegmentVersion(v.value))
           ELSE /\ r' = v.r
                /\ core' = [segment_version |-> v.value, fields |-> <<>>]
                /\ pc' = "fields"
                /\ UNCHANGED <<loop, result>>
    /\ UNCHANGED <<input, out, last, kind>>

\* the derived FromBitStream: the next field of the core, in declared order
ReadCoreField ==
    /\ pc = "fields"
    /\ LET f == CoreFields[Len(core.fields) + 1]
           v == read_field(input, r, f)
       IN  IF v.err # NoError THEN Failed(v.r, Read_(v.err))
           ELSE /\ r' = v.r
                /\ core' = [core EXCEPT !.fields = Append(@, v.value)]
                /\ pc' = IF Len(core.fields) + 1 = Len(CoreFields)
                         THEN "restrictions" ELSE "fields"
                /\ UNCHANGED <<loop, result>>
    /\ UNCHANGED <<input, out, last, kind>>

\* tcfcav1.rs: parse_publisher_restrictions, called for pub_restrictions
ParsePublisherRestrictionsCa ==
    /\ pc = "restrictions" /\ kind = "TcfCaV1"
    /\ LET p == tcfcav1_parse_publisher_restrictions(input, r)
       IN  IF p.err # NoError THEN Failed(p.r, p.err)
           ELSE /\ r' = p.r
                /\ loop' = [num_restrictions |-> Len(p.value), restrictions |-> p.value]
                /\ pc' = "return"
                /\ UNCHANGED <<core, result>>
    /\ UNCHANGED <<input, out, last, kind>>

\* tcfeuv2.rs line 62-63: the declared count, read with `?`
ReadNumRestrictions ==
    /\ pc = "restrictions" /\ kind = "TcfEuV2"
    /\ LET n == read_unsigned_counted(input, r, 12, 16)
       IN  IF n.err # NoError THEN Failed(n.r, Read_(n.err))
           ELSE /\ r' = n.r
                /\ loop' = [num_restrictions |-> n.value, restrictions |-> <<>>]
                /\ pc' = "loop"
                /\ UNCHANGED <<core, result>>
    /\ UNCHANGED <<input, out, last, kind>>

\* tcfeuv2.rs lines 65-88: one iteration of the for loop
ReadRestriction ==
    /\ pc = "loop"
    /\ Len(loop.restrictions) < loop.num_restrictions
    /\ LET b == restriction_body(input, r, loop.restrictions)
       IN  IF b.step = Fail THEN Failed(b.r, b.err)
           ELSE /\ r' = b.r
                /\ loop' = IF b.step = Break THEN loop
                           ELSE [loop EXCEPT !.restrictions = Append(@, b.restriction)]
                /\ pc' = IF b.step = Break THEN "return" ELSE "loop"
                /\ UNCHANGED <<core, result>>
    /\ UNCHANGED <<input, out, last, kind>>

\* tcfeuv2.rs line 65: the range 0..num_restrictions is exhausted
EndOfRestrictions ==
    /\ pc = "loop"
    /\ Len(loop.restrictions) = loop.num_restrictions
    /\ pc' = "return"
    /\ UNCHANGED <<input, r, out, last, kind, core, loop, result>>

\* Ok(restrictions), the core is complete and from_str returns the section
Return ==
    /\ pc = "return"
    /\ result' = Ok([segment_version |-> core.segment_version,
                     fields |-> core.fields,
                     publisher_restrictions |-> loop.restrictions])
    /\ pc' = "done"
    /\ UNCHANGED <<input, r, out, last, kind, core, loop>>

NextSection ==
    \/ ReadSegmentVersion
    \/ ReadCoreField
    \/ ParsePublisherRestrictionsCa
    \/ ReadNumRestrictions
    \/ ReadRestriction
    \/ EndOfRestrictions
    \/ Return

SpecSection == InitSection /\ [][NextSection]_vars

----------------------------------------------------------------------------
(* Reference definitions the reader claims are stated against *)

\* the base64url alphabet in value order: A-Z, a-z, 0-9, '-', '_'
AlphabetCodes ==
    [i \in 1..64 |->
        IF i <= 26 THEN 64 + i
        ELSE IF i <= 52 THEN 96 + (i - 26)
        ELSE IF i <= 62 THEN 47 + (i - 52)
        ELSE IF i = 63 THEN 45 ELSE 95]

InAlphabet(b) == \E i \in 1..64 : AlphabetCodes[i] = b

SymbolValue(b) == CHOOSE v \in 0..63 : AlphabetCodes[v + 1] = b

\* the 6-bit values of the symbols, concatenated MSB-first
SymbolBits(inp) ==
    LET values == [i \in 1..Len(inp) |-> SymbolValue(inp[i])]
    IN  [j \in 1..(6 * Len(inp)) |->
            (values[((j - 1) \div 6) + 1] \div Pow2(5 - ((j - 1) % 6))) % 2]

BitAt(bs, j) == IF j <= Len(bs) THEN bs[j] ELSE 0

\* a bit string cut into bytes, the last one zero-filled on the right
PackedBytes(bs) ==
    [k \in 1..CeilDiv(Len(bs), 8) |->
        LET o == 8 * (k - 1)
        IN  BitAt(bs, o + 1) * 128 + BitAt(bs, o + 2) * 64 + BitAt(bs, o + 3) * 32
            + BitAt(bs, o + 4) * 16 + BitAt(bs, o + 5) * 8 + BitAt(bs, o + 6) * 4
            + BitAt(bs, o + 7) * 2 + BitAt(bs, o + 8)]

\* zero-based offset of the first byte outside the alphabet
FirstDisallowed(inp) ==
    CHOOSE i \in 0..(Len(inp) - 1) :
        /\ ~InAlphabet(inp[i + 1])
        /\ \A j \in 0..(i - 1) : InAlphabet(inp[j + 1])

----------------------------------------------------------------------------
(* Reference reading of a core segment as a flat bit string *)

AllInAlphabet(inp) == \A i \in 1..Len(inp) : InAlphabet(inp[i])

\* The bits a decoder can obtain from inp: all symbols, zero-filled to a
\* whole byte, or the whole bytes that precede the first disallowed byte.
DecodableBits(inp) ==
    IF AllInAlphabet(inp)
    THEN LET bs == SymbolBits(inp)
         IN  [j \in 1..(8 * CeilDiv(Len(bs), 8)) |-> BitAt(bs, j)]
    ELSE LET bs == SymbolBits(SubSeq(inp, 1, FirstDisallowed(inp)))
         IN  [j \in 1..(8 * (Len(bs) \div 8)) |-> bs[j]]

\* why no bit follows DecodableBits(inp)
EndOfBits(inp) ==
    IF AllInAlphabet(inp) THEN UnexpectedEof
    ELSE InvalidByte(FirstDisallowed(inp), inp[FirstDisallowed(inp) + 1])

Fits(B, off, w) == off + w <= Len(B)

\* the unsigned value of the w bits after offset off
RECURSIVE UVal(_, _, _)
UVal(B, off, w) == IF w = 0 THEN 0 ELSE 2 * UVal(B, off, w - 1) + B[off + w]

RefStop(off, at) == [off |-> off, ids |-> {}, at |-> at]

\* n range entries at off; `at` names the field the bits end in, "" if none
RECURSIVE RefEntries(_, _, _, _)
RefEntries(B, off, n, ids) ==
    IF n = 0 THEN [off |-> off, ids |-> ids, at |-> ""]
    ELSE IF ~Fits(B, off, 1) THEN RefStop(off, "is_group")
    ELSE IF ~Fits(B, off + 1, 16) THEN RefStop(off, "start")
    ELSE IF B[off + 1] = 0
    THEN RefEntries(B, off + 17, n - 1, ids \cup {UVal(B, off + 1, 16)})
    ELSE IF ~Fits(B, off + 17, 16) THEN RefStop(off, "end")
    ELSE RefEntries(B, off + 33, n - 1,
                    ids \cup (UVal(B, off + 1, 16)..UVal(B, off + 17, 16)))

RefRange(B, off) ==
    IF ~Fits(B, off, 12) THEN RefStop(off, "n")
    ELSE RefEntries(B, off + 12, UVal(B, off, 12), {})

\* the end of a vendor set at off: 16-bit maximum id, flag, bitfield or range
RefVendorSet(B, off) ==
    IF ~Fits(B, off, 17) THEN RefStop(off, "max_id")
    ELSE IF B[off + 17] = 1 THEN RefRange(B, off + 17)
    ELSE IF ~Fits(B, off + 17, UVal(B, off, 16)) THEN RefStop(off, "bitfield")
    ELSE [off |-> off + 17 + UVal(B, off, 16), ids |-> {}, at |-> ""]

\* version and fixed-width fields: CA 6+36+36+12+12+6+12+12+6+1+12+24+24,
\* EU 6+36+36+12+12+6+12+12+6+1+1+12+24+24+1+12
RefFixedWidth(k) == IF k = "TcfCaV1" THEN 199 ELSE 213

\* offset of the publisher-restriction list, or -1 when the bits end before
\* all the core fields that precede it
RefCoreEnd(B, k) ==
    IF ~Fits(B, 0, RefFixedWidth(k)) THEN 0 - 1
    ELSE LET a == RefVendorSet(B, RefFixedWidth(k))
             b == RefVendorSet(B, a.off)
         IN  IF a.at # "" \/ b.at # "" THEN 0 - 1 ELSE b.off

RefAccepted(k, v) == IF k = "TcfCaV1" THEN v \in {1, 2} ELSE v = 2

\* the restrictions wholly present at off, and the field the bits end in
RECURSIVE RefRestrictions(_, _, _, _)
RefRestrictions(B, off, remaining, done) ==
    IF remaining = 0 THEN [restrictions |-> done, at |-> "", off |-> off]
    ELSE IF ~Fits(B, off, 6) THEN [restrictions |-> done, at |-> "purpose_id", off |-> off]
    ELSE IF ~Fits(B, off + 6, 2)
    THEN [restrictions |-> done, at |-> "restriction_type", off |-> off]
    ELSE LET rg == RefRange(B, off + 8)
         IN  IF rg.at # "" THEN [restrictions |-> done, at |-> rg.at, off |-> off]
             ELSE RefRestrictions(B, rg.off, remaining - 1,
                      Append(done, [purpose_id |-> UVal(B, off, 6),
                                    restriction_type |-> UVal(B, off + 6, 2),
                                    restricted_vendor_ids |-> rg.ids]))

\* the core of the current input has an accepted version and all the fields
\* that precede the restriction list, and the list declares `count`
RefList ==
    LET B == DecodableBits(input)
        off == RefCoreEnd(B, kind)
        listed == off >= 0 /\ Fits(B, off, 12) /\ RefAccepted(kind, UVal(B, 0, 6))
        count == IF listed THEN UVal(B, off, 12) ELSE 0
        parsed == IF listed THEN RefRestrictions(B, off + 12, count, <<>>)
                  ELSE [restrictions |-> <<>>, at |-> "", off |-> 0]
    IN  [listed |-> listed, count |-> count,
         restrictions |-> parsed.restrictions, at |-> parsed.at]

----------------------------------------------------------------------------
(* Claims on the section decoders, checked under SpecSection *)

\* C3: the first field read is the 6-bit segment version v (the top 6 bits of
\* the first decoded byte).  A TCF-CA-v1 core with v outside {1, 2}, and a
\* TCF-EU-v2 core with v other than 2, fails with UnknownSegmentVersion
\* carrying v before any further field is read, whatever follows; an accepted
\* v is reported as segment_version of the decoded core.
C3_SegmentVersionFirst ==
    LET B == DecodableBits(SubSeq(input, 1, Min(2, Len(input))))
        v == UVal(B, 0, 6)
    IN  (pc # "version" /\ Fits(B, 0, 6)) =>
            IF RefAccepted(kind, v)
            THEN /\ core # <<>>
                 /\ core.segment_version = v
                 /\ result.status = "ok" => result.record.segment_version = v
                 /\ result.status = "err" => result.err[1] # "UnknownSegmentVersion"
            ELSE /\ pc = "done"
                 /\ result = Err(UnknownSegmentVersion(v))
                 /\ core = <<>>
                 /\ r.bits = 2 /\ r.reader.input_pos = Min(2, Len(input))

\* a rejected version in front of a complete, well-formed core
C3_Witness ==
    /\ pc = "done" /\ kind = "TcfCaV1"
    /\ result = Err(UnknownSegmentVersion(25))
    /\ AllInAlphabet(input)
    /\ Len(input) >= 40

\* the decode of a core whose bits end early
TruncatedCore ==
    /\ AllInAlphabet(input)
    /\ RefCoreEnd(DecodableBits(input), kind) < 0

\* C4 as stated: every alphabet-valid input whose bits end before all core
\* fields preceding the restriction list are read fails with a Read failure
\* caused by premature end of input.
C4_TruncatedCoreIsReadFailure ==
    (pc = "done" /\ TruncatedCore) => result = Err(Read_(UnexpectedEof))

\* C4 amended: such an input fails and returns no record; the failure is
\* UnknownSegmentVersion when the version was read and is not accepted, and
\* a Read failure caused by premature end of input otherwise.
C4_TruncatedCoreFails ==
    (pc \notin {"version", "fields"} /\ TruncatedCore) =>
        /\ pc = "done"
        /\ LET B == DecodableBits(input)
             IN  /\ result.record = <<>>
                 /\ result = IF Fits(B, 0, 6) /\ ~RefAccepted(kind, UVal(B, 0, 6))
                             THEN Err(UnknownSegmentVersion(UVal(B, 0, 6)))
                             ELSE Err(Read_(UnexpectedEof))

\* an accepted version and a stream that ends inside the second vendor set
C4_Witness ==
    /\ pc = "done" /\ kind = "TcfEuV2" /\ core # <<>>
    /\ Len(core.fields) = Len(tcfeuv2_Core) - 1
    /\ TruncatedCore
    /\ result = Err(Read_(UnexpectedEof))

\* C5: a section string holding a byte outside the alphabet never decodes.
C5_InvalidByteIsFatal ==
    (pc = "done" /\ ~AllInAlphabet(input)) => result.status = "err"

\* the first restriction of a TCF-EU-v2 list that declares at least one ends
\* before its purpose id is complete
EofAtFirstPurposeId ==
    /\ kind = "TcfEuV2" /\ AllInAlphabet(input)
    /\ LET ref == RefList
       IN  /\ ref.listed /\ ref.count >= 1
           /\ ref.at = "purpose_id" /\ ref.restrictions = <<>>

\* C6 as stated: premature end of input in the purpose id of the very first
\* restriction is a Read failure.
C6_EofAtFirstPurposeIdIsFatal ==
    (pc = "done" /\ EofAtFirstPurposeId) => result = Err(Read_(UnexpectedEof))

\* C6 amended: premature end of input in the purpose id of the very first
\* restriction ends the list; the decode succeeds with no restriction.
C6_EofAtFirstPurposeIdEndsList ==
    (pc = "done" /\ EofAtFirstPurposeId)
        => result.status = "ok" /\ result.record.publisher_restrictions = <<>>

C6_Witness ==
    /\ pc = "done" /\ EofAtFirstPurposeId
    /\ loop.num_restrictions >= 1
    /\ result.status = "ok"

\* C7: in TCF-EU-v2, premature end of input in a 16-bit vendor id of
\* restriction i is a Read failure iff i = 0; for i > 0 the decode succeeds
\* with exactly the i restrictions decoded before it, in stream order.  The
\* list returned is never longer than the declared count.
C7_EofInVendorId ==
    (pc = "done" /\ kind = "TcfEuV2" /\ AllInAlphabet(input)) =>
        LET ref == RefList
        IN  ref.listed =>
              /\ ref.at \in {"start", "end"} =>
                    IF Len(ref.restrictions) = 0
                    THEN result = Err(Read_(UnexpectedEof))
                    ELSE /\ result.status = "ok"
                         /\ result.record.publisher_restrictions = ref.restrictions
              /\ result.status = "ok" =>
                    Len(result.record.publisher_restrictions) <= ref.count

\* two restrictions decoded, the third one cut inside a vendor id
C7_Witness ==
    /\ pc = "done" /\ kind = "TcfEuV2" /\ AllInAlphabet(input)
    /\ result.status = "ok"
    /\ LET ref == RefList
       IN  ref.listed /\ ref.at \in {"start", "end"} /\ Len(ref.restrictions) = 2
    /\ Len(result.record.publisher_restrictions) = 2

\* the leading read of the TCF-CA-v1 restriction list fails: no bit, or not
\* all 12 bits of the count, can be obtained after the vendor sets
LeadingReadFails ==
    /\ kind = "TcfCaV1"
    /\ LET B == DecodableBits(input)
           off == RefCoreEnd(B, kind)
       IN  /\ Fits(B, 0, 6) /\ RefAccepted(kind, UVal(B, 0, 6))
           /\ off >= 0
           /\ ~Fits(B, off, 12)

\* C8 as stated: a failure of the leading read of read_n_array_of_ranges
\* fails the section decode with a Read failure.
C8_LeadingReadFailureIsFatal ==
    (pc = "done" /\ LeadingReadFails) => result = Err(Read_(EndOfBits(input)))

\* C8 amended: a failure of the leading read of read_n_array_of_ranges is
\* replaced by the empty list; the decode succeeds with no pub_restrictions.
C8_LeadingReadFailureGivesEmptyList ==
    (pc = "done" /\ LeadingReadFails)
        => result.status = "ok" /\ result.record.publisher_restrictions = <<>>

\* the core segment of tests::section_version_2_decodes, which ends 7 bits
\* after the vendor sets
C8_Witness ==
    /\ pc = "done" /\ LeadingReadFails
    /\ input = TCF_CA_V1
    /\ result.status = "ok"
    /\ result.record.segment_version = 2

----------------------------------------------------------------------------
(* Claims on Base64SliceReader, checked under SpecSlice *)

\* C1: on an input of n alphabet symbols, reading to exhaustion yields exactly
\* ceil(6n/8) bytes: the 6-bit values concatenated MSB-first and cut into
\* bytes, the last byte holding the leftover bits left-justified, zero-filled.
C1_ReadToExhaustion ==
    (pc = "slice" /\ AlphabetValid(input) /\ last.op = "read" /\ last.n < last.buflen)
        => /\ last.err = NoError
           /\ out = PackedBytes(SymbolBits(input))
           /\ Len(out) = CeilDiv(6 * Len(input), 8)
           /\ (Len(input) % 4 = 0 => Len(out) = 3 * (Len(input) \div 4))
           /\ (Len(input) % 4 = 1 => Len(out) = 3 * (Len(input) \div 4) + 1)

\* a single read of a whole 4k+1 input whose last byte carries leftover bits
C1_Witness ==
    /\ pc = "slice" /\ AlphabetValid(input) /\ Len(input) = 5
    /\ last.op = "read" /\ last.first /\ last.n = 4 /\ last.n < last.buflen
    /\ out[4] = 252

\* C2: with a buffer large enough for the whole decoded output, a read of an
\* input holding a byte outside the alphabet fails with InvalidData wrapping
\* InvalidByte(i, b), i the offset of the first such byte and b its value;
\* no read ever fails with anything else.
C2_FirstInvalidByte ==
    pc = "slice" =>
        /\ (/\ last.op = "read" /\ last.first
            /\ ~AlphabetValid(input)
            /\ last.buflen >= CeilDiv(6 * Len(input), 8))
           => last.err = InvalidByte(FirstDisallowed(input),
                                     input[FirstDisallowed(input) + 1])
        /\ last.err # NoError
           => \E i \in 0..(Len(input) - 1) :
                 /\ ~InAlphabet(input[i + 1])
                 /\ last.err = InvalidByte(i, input[i + 1])

\* the first disallowed byte stands after valid symbols and before another
\* disallowed byte
C2_Witness ==
    /\ pc = "slice" /\ last.op = "read" /\ last.first
    /\ Len(input) = 5 /\ last.buflen >= 4
    /\ InAlphabet(input[1]) /\ InAlphabet(input[2]) /\ InAlphabet(input[3])
    /\ ~InAlphabet(input[4]) /\ ~InAlphabet(input[5])
    /\ last.err = InvalidByte(3, input[4])

----------------------------------------------------------------------------
(* Claims on Base64BitReader, checked under SpecBits *)

\* two operations that both failed, or both succeeded, in the same way
SameOutcome(x, y) == x.r = y.r /\ x.err = y.err

\* C9: from any reader position read_unsigned(a) then read_unsigned(b) return
\* hi and lo with hi * 2^b + lo the value of one read_unsigned(a+b) from the
\* same position, and both end in the same reader state; from a byte-aligned
\* position read_unsigned(w) then read_unsigned(8-w) rebuild the decoded byte.
C9_SplitReadsCompose ==
    pc = "bits" =>
        /\ \A a \in 0..MaxWidth :
              LET hi == read_unsigned_counted(input, r, a, 16)
              IN  \A b \in 0..MaxWidth :
                    a + b <= 16 =>
                      LET lo == read_unsigned_counted(input, hi.r, b, 16)
                          whole == read_unsigned_counted(input, r, a + b, 16)
                      IN  IF hi.err # NoError THEN SameOutcome(whole, hi)
                          ELSE /\ SameOutcome(whole, lo)
                               /\ lo.err = NoError
                                  => whole.value = hi.value * Pow2(b) + lo.value
        /\ r.bits = 0 =>
              \A w \in 1..8 :
                LET byte == read_decoded_byte(input, r)
                    hi == read_unsigned_counted(input, r, w, 8)
                    lo == read_unsigned_counted(input, hi.r, 8 - w, 8)
                IN  byte.err = NoError
                    => /\ hi.err = NoError /\ lo.err = NoError
                       /\ hi.value * Pow2(8 - w) + lo.value = byte.byte
                       /\ lo.r = byte.r

\* a split read that starts inside a byte, crosses a byte boundary and
\* returns two non-zero halves
C9_Witness ==
    /\ pc = "bits" /\ r.bits \in 1..7
    /\ \E a, b \in 1..MaxWidth :
          LET hi == read_unsigned_counted(input, r, a, 16)
              lo == read_unsigned_counted(input, hi.r, b, 16)
          IN  /\ a > r.bits /\ a + b <= 16
              /\ hi.err = NoError /\ lo.err = NoError
              /\ hi.value # 0 /\ lo.value # 0

\* C10: from any reader position skip(n) then read_unsigned(m) returns the
\* low m bits of what read_unsigned(n+m) returns from the same position and
\* ends in the same reader state.
C10_SkipThenRead ==
    pc = "bits" =>
        \A n \in 0..MaxSkip :
            LET sk == skip(input, r, n)
            IN  \A m \in 0..MaxLow :
                  LET lo == read_unsigned_counted(input, sk.r, m, 32)
                      whole == read_unsigned_counted(input, r, n + m, 32)
                  IN  IF sk.err # NoError THEN SameOutcome(whole, sk)
                      ELSE /\ SameOutcome(whole, lo)
                           /\ lo.err = NoError => lo.value = whole.value % Pow2(m)

\* a skip over the buffered bits, two whole bytes and part of a third one,
\* followed by a read of non-zero bits
C10_Witness ==
    /\ pc = "bits" /\ r.bits \in 1..7
    /\ \E n \in 0..MaxSkip, m \in 1..MaxLow :
          LET sk == skip(input, r, n)
              lo == read_unsigned_counted(input, sk.r, m, 32)
          IN  /\ n > r.bits + 16 /\ sk.err = NoError /\ sk.r.bits \in 1..7
              /\ lo.err = NoError /\ lo.value # 0

----------------------------------------------------------------------------
(* Specification of the compact range decoder of tcfeuv2.rs: one call of    *)
(* read_publisher_restriction_integer_range_compat on an encoded range list *)

\* the longest range list a generated input holds
MaxEntries == 2

\* entries of the generated lists: the two examples of the design document,
\* an interval with start > end, and the largest 16-bit id
EntryPool == { Single(42), Group(5, 8), Group(8, 5), Single(65535) }

EntryLists == UNION { [1..k -> EntryPool] : k \in 0..MaxEntries }

\* bits that precede the list, so that it starts at several alignments
PrefixBits == { <<>>, <<1, 0, 1>>, <<0, 1, 1, 0, 1, 0, 1>> }

\* bits that follow the list
SuffixBits == { <<>>, <<1, 1, 0, 1>> }

InitRange ==
    /\ \E prefix \in PrefixBits, entries \in EntryLists, suffix \in SuffixBits :
          /\ loop = [prefix |-> Len(prefix), entries |-> entries]
          /\ \E cut \in 0..CeilDiv(Len(prefix \o RangeBits(entries) \o suffix), 6) :
                input = SubSeq(Encode(prefix \o RangeBits(entries) \o suffix), 1, cut)
    /\ r = Base64BitReader_new
    /\ out = <<>>
    /\ last = Idle
    /\ kind = "none"
    /\ pc = "align"
    /\ core = <<>>
    /\ result = NoResult

\* the reads that precede the list leave the reader at its first bit
AlignReader ==
    /\ pc = "align"
    /\ LET s == skip(input, r, loop.prefix)
       IN  /\ r' = s.r
           /\ pc' = IF s.err # NoError THEN "done" ELSE "range"
           /\ result' = IF s.err # NoError THEN Err(Read_(s.err)) ELSE result
    /\ UNCHANGED <<input, out, last, kind, core, loop>>

\* tcfeuv2.rs line 77: the call for the restriction of index restriction_idx
ReadCompactRange(restriction_idx) ==
    /\ pc = "range"
    /\ LET c == read_publisher_restriction_integer_range_compat(
                    input, r, restriction_idx)
       IN  /\ r' = c.r
           /\ result' = c
    /\ last' = [op |-> "range", from |-> r, restriction_idx |-> restriction_idx]
    /\ pc' = "done"
    /\ UNCHANGED <<input, out, kind, core, loop>>

NextRange ==
    \/ AlignReader
    \/ \E restriction_idx \in 0..1 : ReadCompactRange(restriction_idx)

SpecRange == InitRange /\ [][NextRange]_vars

----------------------------------------------------------------------------
(* Claims on the compact range decoder, checked under SpecRange *)

\* the ids a list of entries denotes: its singleton ids and the integers of
\* its inclusive intervals
IdsOf(entries) ==
    UNION { IF entries[i].is_group
            THEN { x \in entries[i].start..entries[i].end : TRUE }
            ELSE { entries[i].start } : i \in 1..Len(entries) }

Singletons(entries) == Cardinality({ i \in 1..Len(entries) : ~entries[i].is_group })

Groups(entries) == Cardinality({ i \in 1..Len(entries) : entries[i].is_group })

\* the input is alphabet-valid and holds every bit of the encoded list
CompletePayload ==
    /\ AllInAlphabet(input)
    /\ 6 * Len(input) >= loop.prefix + Len(RangeBits(loop.entries))

\* C11: when the stream holds the complete payload, the compact range decoder
\* of tcfeuv2.rs returns Some of exactly the union of the singleton ids and
\* the inclusive intervals of the n entries that follow the 12-bit count, an
\* interval with start > end adding no id and raising no error, and leaves
\* the reader exactly 12 + 17 * singletons + 33 * groups bits further.
C11_CompactRangeDecodes ==
    (pc = "done" /\ last.op = "range" /\ CompletePayload) =>
        /\ result.err = NoError /\ result.some
        /\ result.ids = IdsOf(loop.entries)
        /\ result.r = skip(input, last.from,
                           12 + 17 * Singletons(loop.entries)
                              + 33 * Groups(loop.entries)).r
        /\ r = result.r

\* an unaligned list holding the interval 5..8 and an interval with
\* start > end decodes to {5, 6, 7, 8}
C11_Witness ==
    /\ pc = "done" /\ last.op = "range" /\ CompletePayload
    /\ loop.prefix = 3 /\ loop.entries = <<Group(5, 8), Group(8, 5)>>
    /\ result.some /\ result.ids = {5, 6, 7, 8}

----------------------------------------------------------------------------
(* Claims on the state of the bit reader, checked under SpecBits *)

\* C12: after any sequence of read_bit, read_unsigned, read_signed, skip,
\* read_bytes and byte_align, failed or not, the reader holds at most 7
\* unread buffered bits and the pending byte has no bit set at or above
\* position `bits`: value < 2^bits, hence value = 0 when bits = 0.
C12_PendingByteTrimmed ==
    pc = "bits" =>
        /\ r.bits \in 0..7
        /\ r.value \in 0..(Pow2(r.bits) - 1)

\* a reader that went on after a read failed on a disallowed byte and holds
\* unread non-zero bits
C12_Witness ==
    /\ pc = "bits" /\ ~AllInAlphabet(input)
    /\ r.reader.input_pos > FirstDisallowed(input) + 1
    /\ r.bits \in 1..7 /\ r.value > 0

----------------------------------------------------------------------------
(* Specification of the decoding loops, one loop iteration per step:        *)
(*  - the loops of Base64SliceReader::read (base64.rs lines 38-68),         *)
(*  - the entry loop of read_publisher_restriction_integer_range_compat     *)
(*    (tcfeuv2.rs lines 104-142),                                           *)
(*  - the restriction loop of parse_publisher_restrictions (lines 65-88).   *)

\* longest input string of the stepwise slice reader
MaxStepLen == 3

StepBufSizes == {1, 2, MaxStepLen + 1}

InitReadLoop ==
    /\ input \in StringsOver(SliceAlphabet, MaxStepLen)
    /\ r = Base64BitReader_new
    /\ out = <<>>
    /\ last = Idle
    /\ kind = "none"
    /\ pc = "call"
    /\ core = <<>>
    /\ loop = <<>>
    /\ result = NoResult

take_input_byte_NoAdvance(f, value) ==
    [input_pos |-> f.input_pos, acc |-> f.acc * 64 + value, bits |-> f.bits + 6]

\* lines 41, 48, 49: the reader once a symbol of the alphabet is taken
take_input_byte(f, value) ==
    [input_pos |-> f.input_pos + 1, acc |-> f.acc * 64 + value, bits |-> f.bits + 6]

\* line 35-36: a call of read with a buffer of buflen bytes
BeginRead(buflen) ==
    /\ pc = "call"
    /\ last' = [op |-> "read", buflen |-> buflen, written |-> 0, steps |-> 0,
                from |-> r.reader, buf |-> <<>>, err |-> NoError]
    /\ pc' = "while"
    /\ UNCHANGED <<input, r, out, kind, core, loop, result>>

\* lines 39-50: one iteration of the inner loop, which takes one input byte
InnerStep ==
    /\ pc = "while" /\ last.written < last.buflen
    /\ r.reader.bits < 8 /\ r.reader.input_pos < Len(input)
    /\ LET byte == input[r.reader.input_pos + 1]
           value == base64_value(byte)
       IN  IF value = INVALID_B64_VALUE
           THEN /\ r' = [r EXCEPT !.reader.input_pos = @ + 1]
                /\ last' = [last EXCEPT !.steps = @ + 1, !.buf = <<>>,
                                        !.err = InvalidByteAt(r.reader, byte)]
                /\ pc' = "call"
           ELSE /\ r' = [r EXCEPT !.reader = take_input_byte(@, value)]
                /\ last' = [last EXCEPT !.steps = @ + 1]
                /\ pc' = "while"
    /\ UNCHANGED <<input, out, kind, core, loop, result>>

\* lines 52-67: what an iteration of the outer loop does once the inner loop
\* has ended: write a byte and continue, flush the tail and break, or break
OuterStep ==
    /\ pc = "while" /\ last.written < last.buflen
    /\ ~(r.reader.bits < 8 /\ r.reader.input_pos < Len(input))
    /\ IF r.reader.bits >= 8
       THEN /\ r' = [r EXCEPT !.reader.bits = @ - 8,
                              !.reader.acc = @ % Pow2(r.reader.bits - 8)]
            /\ last' = [last EXCEPT
                           !.steps = @ + 1, !.written = @ + 1,
                           !.buf = Append(@, (r.reader.acc
                                                \div Pow2(r.reader.bits - 8)) % 256)]
            /\ pc' = "while"
            /\ out' = out
       ELSE IF r.reader.input_pos = Len(input) /\ r.reader.bits > 0
       THEN /\ r' = [r EXCEPT !.reader = after_flush(@)]
            /\ last' = [last EXCEPT !.steps = @ + 1, !.written = @ + 1,
                                    !.buf = Append(@, flush_byte(r.reader))]
            /\ pc' = "call"
            /\ out' = out \o Append(last.buf, flush_byte(r.reader))
       ELSE /\ r' = r
            /\ last' = [last EXCEPT !.steps = @ + 1]
            /\ pc' = "call"
            /\ out' = out \o last.buf
    /\ UNCHANGED <<input, kind, core, loop, result>>

\* line 38 and 70: the buffer is full, read returns Ok(written)
EndOfRead ==
    /\ pc = "while" /\ last.written = last.buflen
    /\ out' = out \o last.buf
    /\ pc' = "call"
    /\ UNCHANGED <<input, r, last, kind, core, loop, result>>

\* the restriction lists given to parse_publisher_restrictions: every tail
\* and every truncation of it
RestrictionInputs ==
    UNION { { SubSeq(Encode(t), 1, n) : n \in 0..Len(Encode(t)) } : t \in Tails }

InitRestrictionLoop ==
    /\ input \in RestrictionInputs
    /\ r = Base64BitReader_new
    /\ out = <<>>
    /\ last = Idle
    /\ kind = "TcfEuV2"
    /\ pc = "restrictions"
    /\ core = [segment_version |-> 2, fields |-> <<>>]
    /\ loop = <<>>
    /\ result = NoResult

\* tcfeuv2.rs lines 97-102: the count of entries, read for the restriction
\* of index restriction_idx
ReadEntryCount(restriction_idx) ==
    /\ pc = "range"
    /\ LET n == read_unsigned_counted(input, r, 12, 16)
       IN  /\ r' = n.r
           /\ IF n.err # NoError
              THEN /\ result' = CompatOn(on_field_error(n.err), n.r, n.err)
                   /\ pc' = "done"
                   /\ core' = core
              ELSE /\ core' = [n |-> n.value, entry_idx |-> 0, ids |-> {},
                               restriction_idx |-> restriction_idx]
                   /\ pc' = "entries"
                   /\ result' = result
    /\ last' = [op |-> "range", from |-> r, restriction_idx |-> restriction_idx]
    /\ UNCHANGED <<input, out, kind, loop>>

\* tcfeuv2.rs lines 104-142: one iteration of the entry loop
ReadEntry ==
    /\ pc = "entries" /\ core.entry_idx < core.n
    /\ LET c == compat_entries(input, r, core.restriction_idx, 1, core.ids)
       IN  /\ r' = c.r
           /\ IF c.err # NoError \/ ~c.some
              THEN /\ result' = c
                   /\ pc' = "done"
                   /\ core' = core
              ELSE /\ core' = [core EXCEPT !.entry_idx = @ + 1, !.ids = c.ids]
                   /\ pc' = "entries"
                   /\ result' = result
    /\ UNCHANGED <<input, out, last, kind, loop>>

\* tcfeuv2.rs lines 104 and 144: the range 0..n is exhausted, Ok(Some(ids))
EndOfEntries ==
    /\ pc = "entries" /\ core.entry_idx = core.n
    /\ result' = CompatSome(r, core.ids)
    /\ pc' = "done"
    /\ UNCHANGED <<input, r, out, last, kind, core, loop>>

InitLoops == InitReadLoop \/ InitRange \/ InitRestrictionLoop

NextLoops ==
    \/ \E buflen \in StepBufSizes : BeginRead(buflen)
    \/ InnerStep
    \/ OuterStep
    \/ EndOfRead
    \/ AlignReader
    \/ \E restriction_idx \in 0..1 : ReadEntryCount(restriction_idx)
    \/ ReadEntry
    \/ EndOfEntries
    \/ ReadNumRestrictions
    \/ ReadRestriction
    \/ EndOfRestrictions
    \/ Return

\* a read that was called runs on: base64.rs lines 38-70 hold no wait
ReadRuns == WF_vars(InnerStep \/ OuterStep \/ EndOfRead)

\* the same for the loops of tcfeuv2.rs lines 65-88 and 104-142, where a
\* step is possible at every position inside a loop: weak fairness of the
\* steps, with the position as the test that a step is possible
ParseRuns == []<>(pc \notin {"entries", "loop"}) \/ []<><<NextLoops>>_vars

SpecLoops == InitLoops /\ [][NextLoops]_vars /\ ReadRuns /\ ParseRuns

InLoop == pc \in {"while", "entries", "loop"}

\* the steps of a read are within len(input) + len(buf), and each of them is
\* paid for by an input byte, an output byte or the exit
ReadStepsBounded ==
    (pc \in {"while", "call"} /\ last.op = "read") =>
        /\ last.steps <= Len(input) + last.buflen
        /\ last.steps <= (r.reader.input_pos - last.from.input_pos) + last.written
                            + (IF pc = "call" THEN 1 ELSE 0)
        /\ last.written <= last.buflen

\* the stepwise read is the read of the reader
ReadStepsAreRead ==
    (pc = "call" /\ last.op = "read") =>
        LET b == read(input, last.from, last.buflen)
        IN  /\ b.reader = r.reader
            /\ b.err = last.err
            /\ b.err = NoError => b.buf = last.buf

EntriesBounded ==
    /\ pc = "entries" => core.entry_idx <= core.n
    /\ (pc = "done" /\ last.op = "range") =>
          result = read_publisher_restriction_integer_range_compat(
                      input, last.from, last.restriction_idx)

RestrictionsBounded ==
    pc \in {"loop", "return"} => Len(loop.restrictions) <= loop.num_restrictions

\* an iteration that stays in its loop has consumed input or written a byte
LoopProgress ==
    /\ (pc = "while" /\ pc' = "while" /\ last'.steps = last.steps + 1) =>
          \/ r'.reader.input_pos = r.reader.input_pos + 1 /\ last'.written = last.written
          \/ r'.reader.input_pos = r.reader.input_pos /\ last'.written = last.written + 1
    /\ (pc = "entries" /\ pc' = "entries") =>
          /\ core'.entry_idx = core.entry_idx + 1
          /\ r'.reader.input_pos > r.reader.input_pos
    /\ (pc = "loop" /\ pc' = "loop") =>
          /\ Len(loop'.restrictions) = Len(loop.restrictions) + 1
          /\ r'.reader.input_pos > r.reader.input_pos

\* C13: every decoding loop terminates on every input. A read takes at most
\* len(input) + len(buf) steps, each consuming one input byte, writing one
\* output byte or leaving the loop; the restriction loop of TCF-EU-v2 runs
\* at most the declared count of iterations and the entry loop of a range at
\* most its declared count, each iteration consuming input or ending the
\* loop; and every loop that was entered is left.
C13_LoopsTerminate ==
    /\ [](ReadStepsBounded /\ ReadStepsAreRead /\ EntriesBounded /\ RestrictionsBounded)
    /\ [][LoopProgress]_vars
    /\ (InLoop ~> ~InLoop)

\* a read that needed exactly len(input) + len(buf) steps
C13_Witness ==
    /\ pc = "call" /\ last.op = "read"
    /\ Len(input) >= 3 /\ last.buflen = 2
    /\ last.steps = Len(input) + last.buflen
    /\ last.written = 2 /\ r.reader.input_pos = 3

----------------------------------------------------------------------------
\* the bytes of one read of the whole input with a buffer that holds them all
WholeRead(inp) == read(inp, Base64SliceReader_new, CeilDiv(6 * Len(inp), 8)).buf

\* the input is exhausted and its tail flushed
Exhausted == r.reader.input_pos = Len(input) /\ r.reader.bits = 0

\* C14: for an alphabet-valid input the bytes returned by any sequence of
\* reads with non-empty buffers (one byte, as read_decoded_byte asks, or
\* several, as the read_exact of read_bytes asks) are, concatenated, the
\* bytes of one read with a buffer large enough for the whole output: every
\* read returns the next min(len(buf), bytes left) bytes of that sequence,
\* and once the input is exhausted and the tail flushed every read returns
\* 0 bytes and leaves the reader as it is.
C14_ChunkingIndependence ==
    (pc = "slice" /\ AlphabetValid(input)) =>
        /\ Len(out) <= Len(WholeRead(input))
        /\ out = SubSeq(WholeRead(input), 1, Len(out))
        /\ last.op = "read" =>
              /\ last.err = NoError
              /\ last.n = Min(last.buflen,
                              Len(WholeRead(input)) - (Len(out) - last.n))
        /\ Len(out) = Len(WholeRead(input)) <=> Exhausted
        /\ Exhausted =>
              \A buflen \in BufSizes \cup {3, MaxLen + 1} :
                  read(input, r.reader, buflen)
                      = [reader |-> r.reader, buf |-> <<>>, err |-> NoError]
        /\ WholeRead(input) = read(input, Base64SliceReader_new, MaxLen + 1).buf

\* five symbols read in several calls, the last of which asked for two bytes
\* and got the flushed tail alone
C14_Witness ==
    /\ pc = "slice" /\ AlphabetValid(input) /\ Len(input) = 5
    /\ last.op = "read" /\ last.buflen = 2 /\ last.n = 1 /\ ~last.first
    /\ Len(out) = 4 /\ out = WholeRead(input) /\ out[4] # 0
    /\ Exhausted

====
